---- MODULE Spec2Model ----
(***************************************************************************)
(* Width-aware routing service (app.py): the process-wide cached road      *)
(* graph, the /route handler and the pure functions it is built from.      *)
(*                                                                         *)
(* Units.  Widths are in decimetres (3.0 m = 30), lengths in metres,       *)
(* speeds in km/h, coordinates in thousandths of a degree, travel times in *)
(* 1/TIME_UNITS_PER_MIN of a minute so that length / (speed*1000/60) is an *)
(* exact integer for every speed of AVG_SPEEDS_KMH.                        *)
(*                                                                         *)
(* A Python dict is a function whose DOMAIN is the set of its keys; a      *)
(* road graph is [nodes, y, x, edges] with edges a function from           *)
(* <<u, v, key>> to the edge's attribute dict.  A raw OSM tag value is     *)
(* [isList, items]: a string is a one-item value with isList = FALSE.      *)
(***************************************************************************)
EXTENDS Integers, Sequences, FiniteSets, TLC

\* ------------------------------------------------------------------ dicts
Get(d, k, default) == IF k \in DOMAIN d THEN d[k] ELSE default

Put(d, k, v) == [x \in (DOMAIN d) \cup {k} |-> IF x = k THEN v ELSE d[x]]

EmptyDict == [x \in {} |-> 0]

Str(s) == [isList |-> FALSE, items |-> <<s>>]

List(items) == [isList |-> TRUE, items |-> items]

\* Python's None for a tag read with dict.get
NoneTag == [isList |-> FALSE, items |-> <<>>]

\* Python truthiness of a tag value: None, "" and [] are falsy
Truthy(t) ==
  IF t.isList THEN t.items # <<>>
  ELSE t.items # <<>> /\ t.items[1] # ""

\* ------------------------------------------------------------------ floats
\* float('nan'): every ordered comparison with it is False
NaN == 0 - 1000000

Lt(a, b) == a # NaN /\ b # NaN /\ a < b

Ge(a, b) == a # NaN /\ b # NaN /\ a >= b

Gt(a, b) == a # NaN /\ b # NaN /\ a > b

\* float(s) for the strings of the model, in decimetres; a string outside the
\* domain raises ValueError
FloatOf ==
  [s \in {"6", "2", "2.5", "3", "0", "-2", "nan"} |->
     CASE s = "6" -> 60
       [] s = "2" -> 20
       [] s = "2.5" -> 25
       [] s = "3" -> 30
       [] s = "0" -> 0
       [] s = "-2" -> 0 - 20
       [] s = "nan" -> NaN]

\* int(s) for the strings of the model; "2.5" and "nan" raise ValueError
IntOf ==
  [s \in {"6", "2", "3", "0", "-2"} |->
     CASE s = "6" -> 6
       [] s = "2" -> 2
       [] s = "3" -> 3
       [] s = "0" -> 0
       [] s = "-2" -> 0 - 2]

\* data[tag][0] if isinstance(data[tag], list) else data[tag]; Raises marks
\* the IndexError of an empty list
Raises == "<raises>"

FirstOrSelf(t) ==
  IF t.isList
  THEN (IF t.items = <<>> THEN Raises ELSE t.items[1])
  ELSE t.items[1]

\* ------------------------------------------------------------------ defaults
DEFAULT_LANE_WIDTH == 30

DEFAULT_VEHICLE_WIDTH == 30

BBOX_MARGIN == 5

TIME_UNITS_PER_MIN == 420000

SPEED_LCM == 25200

AVG_SPEEDS_KMH ==
  [hw \in {"motorway", "trunk", "primary", "secondary", "tertiary",
           "residential", "service", "unclassified", "default"} |->
     CASE hw = "motorway" -> 90
       [] hw = "trunk" -> 80
       [] hw = "primary" -> 60
       [] hw = "secondary" -> 45
       [] hw = "tertiary" -> 35
       [] hw = "residential" -> 25
       [] hw = "service" -> 15
       [] hw = "unclassified" -> 20
       [] hw = "default" -> 30]

WIDTH_HEUR ==
  [hw \in {"motorway", "trunk", "primary", "secondary", "tertiary",
           "residential", "service"} |->
     CASE hw = "motorway" -> 110
       [] hw = "trunk" -> 100
       [] hw = "primary" -> 90
       [] hw = "secondary" -> 80
       [] hw = "tertiary" -> 70
       [] hw = "residential" -> 60
       [] hw = "service" -> 40]

WIDTH_HEUR_DEFAULT == 55

\* ------------------------------------------------------------------ estimate_edge_width
\* the `width` branch: the parsed width, or NoWidth when the key is absent or
\* the conversion raises (bare except: pass)
NoWidth == 0 - 2000000

WidthFromTag(data) ==
  IF "width" \notin DOMAIN data THEN NoWidth
  ELSE LET s == FirstOrSelf(data["width"])
       IN IF s # Raises /\ s \in DOMAIN FloatOf THEN FloatOf[s] ELSE NoWidth

WidthFromLanes(data) ==
  IF "lanes" \notin DOMAIN data THEN NoWidth
  ELSE LET s == FirstOrSelf(data["lanes"])
       IN IF s # Raises /\ s \in DOMAIN IntOf
          THEN IntOf[s] * DEFAULT_LANE_WIDTH
          ELSE NoWidth

WidthFromHighway(data) ==
  LET t  == Get(data, "highway", Str("residential"))
      hw == FirstOrSelf(t)
  IN IF hw \in DOMAIN WIDTH_HEUR THEN WIDTH_HEUR[hw] ELSE WIDTH_HEUR_DEFAULT

estimate_edge_width(data) ==
  LET w1 == WidthFromTag(data)
      w2 == IF w1 = NoWidth THEN WidthFromLanes(data) ELSE w1
  IN IF w2 = NoWidth THEN WidthFromHighway(data) ELSE w2

\* ------------------------------------------------------------------ speed and time
\* hw = data.get('highway'); if isinstance(hw, list): hw = hw[0];
\* AVG_SPEEDS_KMH.get(hw, AVG_SPEEDS_KMH['default'])
SpeedOf(data) ==
  LET t  == Get(data, "highway", NoneTag)
      hw == IF t.items = <<>> THEN "" ELSE t.items[1]
  IN IF hw \in DOMAIN AVG_SPEEDS_KMH THEN AVG_SPEEDS_KMH[hw]
     ELSE AVG_SPEEDS_KMH["default"]

\* data.get('length', 1) / (speed_kmh * 1000 / 60), in time units
TravelTime(data, speed_kmh) == Get(data, "length", 1) * (SPEED_LCM \div speed_kmh)

\* ------------------------------------------------------------------ graphs
NoGraph == [nodes |-> {}, y |-> EmptyDict, x |-> EmptyDict, edges |-> EmptyDict]

EdgesOf(G) == DOMAIN G.edges

EdgesBetween(G, u, v) == {e \in EdgesOf(G) : e[1] = u /\ e[2] = v}

\* G.remove_edge(u, v, k) for every edge of `removed`
RemoveEdges(G, removed) ==
  [G EXCEPT !.edges = [e \in EdgesOf(G) \ removed |-> G.edges[e]]]

\* AnnotateEdge with the travel time as the solver's weight
AnnotateEdgeWeightIsTime(data) ==
  LET d1 == Put(data, "width_est", estimate_edge_width(data))
      d2 == Put(d1, "weight", TravelTime(data, SpeedOf(data)))
      d3 == Put(d2, "speed_kmh", SpeedOf(data))
  IN Put(d3, "travel_time_min", TravelTime(data, SpeedOf(data)))

\* the body of the annotation loop for one edge's dict
AnnotateEdge(data) ==
  LET d1 == Put(data, "width_est", estimate_edge_width(data))
      d2 == Put(d1, "weight", Get(data, "length", 1))
      d3 == Put(d2, "speed_kmh", SpeedOf(data))
  IN Put(d3, "travel_time_min", TravelTime(data, SpeedOf(data)))

\* width < vehicle_width
TooNarrow(width, vehicle_width) == Lt(width, vehicle_width)

\* G_request: the deep copy of G_base, every edge annotated, then every edge
\* whose estimate is below vehicle_width removed
PrepareRequestGraph(G_base, vehicle_width) ==
  LET annotated == [G_base EXCEPT
                      !.edges = [e \in EdgesOf(G_base) |-> AnnotateEdge(G_base.edges[e])]]
      edges_to_remove ==
        {e \in EdgesOf(annotated) :
           TooNarrow(annotated.edges[e]["width_est"], vehicle_width)}
  IN RemoveEdges(annotated, edges_to_remove)

\* ox.distance.nearest_nodes(G, X, Y): the node nearest to (Y, X), the lowest
\* id among equally near ones
Dist2(G, n, X, Y) ==
  (G.y[n] - Y) * (G.y[n] - Y) + (G.x[n] - X) * (G.x[n] - X)

nearest_nodes(G, X, Y) ==
  CHOOSE n \in G.nodes :
    \A m \in G.nodes :
      \/ Dist2(G, n, X, Y) < Dist2(G, m, X, Y)
      \/ Dist2(G, n, X, Y) = Dist2(G, m, X, Y) /\ n <= m

\* ------------------------------------------------------------------ nx.shortest_path
SetMin(S) == CHOOSE a \in S : \A b \in S : a <= b

SeqContains(s, a) == \E i \in 1..Len(s) : s[i] = a

RECURSIVE SumSeq(_)
SumSeq(s) == IF Len(s) = 0 THEN 0 ELSE s[1] + SumSeq([i \in 1..(Len(s) - 1) |-> s[i + 1]])

\* the multigraph weight function: min(attr.get('weight', 1) for attr in d.values())
EdgeCost(G, v, u) ==
  SetMin({Get(G.edges[e], "weight", 1) : e \in EdgesBetween(G, v, u)})

\* the node sequences from the end of p to t over the edges `es` of G that
\* repeat no node
RECURSIVE PathsFrom(_, _, _, _)
PathsFrom(G, es, p, t) ==
  LET last == p[Len(p)]
  IN IF last = t THEN {p}
     ELSE UNION {PathsFrom(G, es, Append(p, n), t) :
                   n \in {m \in G.nodes :
                            /\ ~SeqContains(p, m)
                            /\ \E e \in es : e[1] = last /\ e[2] = m}}

SimplePaths(G, es, s, t) == PathsFrom(G, es, <<s>>, t)

PathCost(G, p) == SumSeq([i \in 1..(Len(p) - 1) |-> EdgeCost(G, p[i], p[i + 1])])

\* shortest_paths with a source that is its own target taken for unreachable
shortest_paths_no_trivial(G, source, target) ==
  LET paths == SimplePaths(G, EdgesOf(G), source, target)
  IN IF source = target THEN {}
     ELSE {p \in paths : \A q \in paths : PathCost(G, p) <= PathCost(G, q)}

\* nx.shortest_path(G, source, target, weight='weight') by its contract: it
\* returns a path of least total weight, whichever of several the library's
\* search meets first, and raises NetworkXNoPath when there is none (the empty
\* set here); the path from a node to itself is the node alone
shortest_paths(G, source, target) ==
  LET paths == SimplePaths(G, EdgesOf(G), source, target)
  IN {p \in paths : \A q \in paths : PathCost(G, p) <= PathCost(G, q)}

\* ------------------------------------------------------------------ result aggregation
\* G_route.get_edge_data(u, v, 0): the key whose dict the loop reads
EdgeDataKey == 0

\* `if not data: continue`: no such edge, or an empty dict
HasEdgeData(G, u, v) ==
  /\ <<u, v, EdgeDataKey>> \in EdgesOf(G)
  /\ DOMAIN G.edges[<<u, v, EdgeDataKey>>] # {}

\* the lazy metric of the loop: travel_time_min is added when it is missing
EnsureTravelTime(data) ==
  IF "travel_time_min" \in DOMAIN data THEN data
  ELSE Put(data, "travel_time_min", TravelTime(data, SpeedOf(data)))

\* round(x) of Python 3 for x = num / den: to the nearest, ties to the even
RoundHalfEven(num, den) ==
  LET q == num \div den
      r == num % den
  IN IF 2 * r < den THEN q
     ELSE IF 2 * r > den THEN q + 1
     ELSE IF q % 2 = 0 THEN q ELSE q + 1

\* data.get('name') or data.get('ref') or data.get('highway')
NameOrRefOrHighway(data) ==
  IF Truthy(Get(data, "name", NoneTag)) THEN data["name"]
  ELSE IF Truthy(Get(data, "ref", NoneTag)) THEN data["ref"]
  ELSE Get(data, "highway", NoneTag)

\* the display name of one edge dict
DisplayName(data) ==
  LET t    == NameOrRefOrHighway(data)
      name == IF t.items = <<>> THEN "" ELSE t.items[1]
  IN IF name # "" THEN name
     ELSE "Unnamed Road (" \o ToString(Get(data, "length", 0)) \o " m)"

\* if name not in route_names: route_names.append(name)
AppendIfNew(route_names, name) ==
  IF SeqContains(route_names, name) THEN route_names ELSE Append(route_names, name)

\* the loop over consecutive node pairs, from pair i on; acc carries the
\* graph (whose dicts the loop writes), the two totals and route_names
RECURSIVE AggregateFrom(_, _, _)
AggregateFrom(route, i, acc) ==
  IF i > Len(route) - 1 THEN acc
  ELSE LET u == route[i]
           v == route[i + 1]
       IN IF ~HasEdgeData(acc.G, u, v) THEN AggregateFrom(route, i + 1, acc)
          ELSE LET e    == <<u, v, EdgeDataKey>>
                   data == EnsureTravelTime(acc.G.edges[e])
               IN AggregateFrom(route, i + 1,
                    [G                  |-> [acc.G EXCEPT !.edges[e] = data],
                     total_distance_m   |-> acc.total_distance_m + Get(data, "length", 0),
                     total_duration_min |-> acc.total_duration_min
                                              + Get(data, "travel_time_min", 0),
                     route_names        |-> AppendIfNew(acc.route_names, DisplayName(data))])

Aggregate(G_route, route) ==
  AggregateFrom(route, 1,
                [G |-> G_route, total_distance_m |-> 0, total_duration_min |-> 0,
                 route_names |-> <<>>])

\* the warning of a fallback route
FALLBACK_WARNING ==
  "Warning: The width-restricted route failed. Displaying an alternate route (all roads included)."

\* the 200 payload; distance_km is in hundredths of a km, duration_min in minutes
BuildResponse(G_route, route, agg, vehicle_width, is_fallback) ==
  LET response ==
        [route         |-> [i \in 1..Len(route) |-> <<G_route.y[route[i]], G_route.x[route[i]]>>],
         route_names   |-> agg.route_names,
         num_nodes     |-> Len(route),
         vehicle_width |-> vehicle_width,
         distance_km   |-> RoundHalfEven(agg.total_distance_m, 10),
         duration_min  |-> RoundHalfEven(agg.total_duration_min, TIME_UNITS_PER_MIN)]
  IN [status |-> 200,
      body   |-> IF is_fallback THEN Put(response, "error", FALLBACK_WARNING)
                 ELSE response]

\* the 500 of the fallback's other except branch
FallbackErrorResponse ==
  [status |-> 500, body |-> [error |-> "Fallback routing error: <e>"]]

\* NoRouteResponse answered as a routing error
NoRouteAsFallbackError == FallbackErrorResponse

\* the 404 of a request whose two solves both found no path
NoRouteResponse ==
  [status |-> 404,
   body   |-> [error |-> "No route available, even without width restrictions."]]

BadCoordsResponse ==
  [status |-> 400, body |-> [error |-> "Missing or invalid coordinates"]]

BadWidthResponse ==
  [status |-> 400, body |-> [error |-> "Invalid vehicle_width value"]]

ProviderErrorResponse ==
  [status |-> 500, body |-> [error |-> "Could not build road network: <e>"]]

\* the 500 of an exception get_route does not catch
UnhandledErrorResponse == [status |-> 500, body |-> EmptyDict]

NoResponse == [status |-> 0, body |-> EmptyDict]

\* ------------------------------------------------------------------ cache gate
\* (south, west, north, east) of a request: the endpoints' box plus the margin
MaxOf(a, b) == IF a >= b THEN a ELSE b

MinOf(a, b) == IF a <= b THEN a ELSE b

RequestBox(s_lat, s_lon, e_lat, e_lon) ==
  [north |-> MaxOf(s_lat, e_lat) + BBOX_MARGIN,
   south |-> MinOf(s_lat, e_lat) - BBOX_MARGIN,
   east  |-> MaxOf(s_lon, e_lon) + BBOX_MARGIN,
   west  |-> MinOf(s_lon, e_lon) - BBOX_MARGIN]

\* BoxCovered with the northern boundary excluded
BoxCoveredNorthExclusive(box, bbox) ==
  /\ box.south >= bbox[1]
  /\ box.north < bbox[3]
  /\ box.west >= bbox[2]
  /\ box.east <= bbox[4]

\* south >= min_lat and north <= max_lat and west >= min_lon and east <= max_lon
BoxCovered(box, bbox) ==
  /\ box.south >= bbox[1]
  /\ box.north <= bbox[3]
  /\ box.west >= bbox[2]
  /\ box.east <= bbox[4]

\* `if G_CACHED and CACHED_BBOX`: a graph is truthy when it has a node, a
\* tuple when it is not empty
UseCached(cached, bbox, box) ==
  /\ cached.nodes # {}
  /\ bbox # <<>>
  /\ BoxCovered(box, bbox)

\* CACHED_BBOX of load_default_graph
BBoxOfNodes(G) ==
  <<SetMin({G.y[n] : n \in G.nodes}),
    SetMin({G.x[n] : n \in G.nodes}),
    0 - SetMin({0 - G.y[n] : n \in G.nodes}),
    0 - SetMin({0 - G.x[n] : n \in G.nodes})>>

\* ------------------------------------------------------------------ road data
\* what the road-network provider can return: four nodes on the corners of a
\* square, and four road graphs over them
NodeY == <<10, 10, 30, 30>>

NodeX == <<10, 30, 30, 10>>

MkGraph(nodes, edges) ==
  [nodes |-> nodes, y |-> [n \in nodes |-> NodeY[n]],
   x |-> [n \in nodes |-> NodeX[n]], edges |-> edges]

\* a town with a narrow lane doubled by a wide carriageway (1 -> 2), a
\* detour by motorway (1 -> 4 -> 3) and a narrow service road (3 -> 4)
City ==
  MkGraph({1, 2, 3, 4},
    <<1, 2, 0>> :> [highway |-> Str("residential"), width |-> Str("2"),
                    name |-> Str("Main St"), length |-> 100]
    @@ <<1, 2, 1>> :> [highway |-> Str("primary"), width |-> Str("6"),
                       name |-> Str("Main St"), length |-> 120]
    @@ <<2, 3, 0>> :> [highway |-> Str("secondary"), lanes |-> Str("2"),
                       name |-> Str("Main St"), length |-> 200]
    @@ <<1, 4, 0>> :> [highway |-> Str("motorway"), ref |-> Str("NH1"), length |-> 150]
    @@ <<4, 3, 0>> :> [highway |-> Str("motorway"), ref |-> Str("NH1"), length |-> 250]
    @@ <<3, 4, 0>> :> [highway |-> Str("service"), width |-> Str("2.5"), length |-> 50])

\* two nodes, a wide road one way and a narrow one back
Lane ==
  MkGraph({1, 2},
    <<1, 2, 0>> :> [highway |-> Str("residential"), width |-> Str("6"),
                    name |-> Str("Oak Ave"), length |-> 80]
    @@ <<2, 1, 0>> :> [highway |-> Str("residential"), width |-> Str("2"),
                       name |-> Str("Oak Ave"), length |-> 80])

\* tags as OSM has them: unparseable, multi-valued, zero, negative, missing
Messy ==
  MkGraph({1, 2, 3, 4},
    <<1, 2, 0>> :> [highway |-> List(<<"tertiary", "residential">>), width |-> Str("abc"),
                    lanes |-> Str("2"), name |-> List(<<"Ring Rd", "Old Rd">>),
                    length |-> 100]
    @@ <<2, 3, 0>> :> [width |-> List(<<>>), lanes |-> Str("2.5"), name |-> Str(""),
                       ref |-> Str("B7"), length |-> 60]
    @@ <<3, 4, 0>> :> [highway |-> Str("service"), width |-> Str("nan"), length |-> 40]
    @@ <<4, 1, 0>> :> [width |-> Str("-2"), lanes |-> Str("3")]
    @@ <<1, 3, 0>> :> [highway |-> Str("trunk"), width |-> Str("0"), length |-> 500]
    @@ <<2, 4, 0>> :> [highway |-> Str("unclassified"), lanes |-> List(<<"0", "2">>),
                       length |-> 70]
    @@ <<4, 3, 0>> :> [highway |-> Str("path"), width |-> List(<<"3", "6">>),
                       length |-> 45])

\* one street that the route leaves and meets again, and a ring road of the
\* same length
Names ==
  MkGraph({1, 2, 3, 4},
    <<1, 2, 0>> :> [highway |-> Str("tertiary"), name |-> Str("Main St"), length |-> 90]
    @@ <<2, 3, 0>> :> [highway |-> Str("tertiary"), name |-> Str("Oak Ave"), length |-> 110]
    @@ <<3, 4, 0>> :> [highway |-> Str("tertiary"), name |-> Str("Main St"), length |-> 90]
    @@ <<1, 4, 0>> :> [highway |-> Str("trunk"), name |-> Str("Ring Rd"), length |-> 290])

ProviderGraphs == {City, Lane, Messy, Names}

\* the request coordinates <<lat, lon>>: four whose margin touches the cached
\* box exactly, and one beyond each of its four sides
Points ==
  {<<15, 15>>, <<15, 25>>, <<25, 25>>, <<25, 15>>,
   <<14, 15>>, <<26, 25>>, <<15, 14>>, <<25, 26>>}

\* vehicle_width as float() returns it: 2.5, the default 3.0 and 7.0
VehicleWidths == {25, DEFAULT_VEHICLE_WIDTH, 70}

\* the narrower inputs of the two-thread specification: two points inside the
\* cached box and one outside, two widths, one provider graph
ConcPoints == {<<15, 15>>, <<15, 25>>, <<14, 15>>}

ConcWidths == {DEFAULT_VEHICLE_WIDTH, 70}

ConcGraphs == {Lane}

\* ------------------------------------------------------------------ state
NumWorkers == 2

Workers == 1..NumWorkers

VARIABLES
  main_pc,      \* "load" before load_default_graph has run, then "serving"
  G_CACHED,     \* the cached graph, NoGraph for None
  CACHED_BBOX,  \* (min_lat, min_lon, max_lat, max_lon), <<>> for None
  G_LOADED,     \* history: G_CACHED as load_default_graph left it
  req           \* per worker thread: the locals of its get_route call

vars == <<main_pc, G_CACHED, CACHED_BBOX, G_LOADED, req>>

\* the locals of a worker with no request; base says which graph G_base is
\* ("cached": the shared G_CACHED, "own": the fetched G_own), G_route which
\* graph the route is solved on ("request" or "base"); solves and fetched are
\* history: the solves attempted so far, and the box asked of the provider
IdleLocals ==
  [pc |-> "idle", s_lat |-> 0, s_lon |-> 0, e_lat |-> 0, e_lon |-> 0,
   vehicle_width |-> 0, base |-> "none", G_own |-> NoGraph, G_request |-> NoGraph,
   orig |-> 0, dest |-> 0, orig_fallback |-> 0, dest_fallback |-> 0, G_route |-> "none", is_fallback |-> FALSE,
   route |-> <<>>, total_distance_m |-> 0, total_duration_min |-> 0,
   response |-> NoResponse, solves |-> <<>>, fetched |-> <<>>]

Init ==
  /\ main_pc = "load"
  /\ G_CACHED = NoGraph
  /\ CACHED_BBOX = <<>>
  /\ G_LOADED = NoGraph
  /\ req = [w \in Workers |-> IdleLocals]

\* G_base of worker w
BaseGraph(w) == IF req[w].base = "cached" THEN G_CACHED ELSE req[w].G_own

\* ------------------------------------------------------------------ load_default_graph
\* OSMNX_AVAILABLE is taken to be True: without it get_route is not defined
\* graph_from_point succeeds: the graph and its nodes' bounding box are cached
LoadDefaultGraphOk ==
  /\ main_pc = "load"
  /\ main_pc' = "serving"
  /\ G_CACHED' = City
  /\ CACHED_BBOX' = BBoxOfNodes(City)
  /\ G_LOADED' = City
  /\ UNCHANGED req

\* graph_from_point raises (or the module is imported and never loads)
LoadDefaultGraphFail ==
  /\ main_pc = "load"
  /\ main_pc' = "serving"
  /\ G_CACHED' = NoGraph
  /\ UNCHANGED <<CACHED_BBOX, G_LOADED, req>>

\* ------------------------------------------------------------------ get_route
\* float() of a coordinate raises: 400
ReceiveBadCoords(w) ==
  /\ main_pc = "serving"
  /\ req[w].pc = "idle"
  /\ req' = [req EXCEPT ![w].pc = "done", ![w].response = BadCoordsResponse]
  /\ UNCHANGED <<main_pc, G_CACHED, CACHED_BBOX, G_LOADED>>

\* float() of vehicle_width raises: 400
ReceiveBadWidth(w) ==
  /\ main_pc = "serving"
  /\ req[w].pc = "idle"
  /\ \E s \in Points, e \in Points :
       req' = [req EXCEPT ![w].pc = "done", ![w].response = BadWidthResponse,
                          ![w].s_lat = s[1], ![w].s_lon = s[2],
                          ![w].e_lat = e[1], ![w].e_lon = e[2]]
  /\ UNCHANGED <<main_pc, G_CACHED, CACHED_BBOX, G_LOADED>>

\* the parameters parse; the cache gate picks G_base: the cached graph, a
\* graph fetched for the request's box, or a 500 when the provider raises
Receive(w, points, widths, graphs) ==
  /\ main_pc = "serving"
  /\ req[w].pc = "idle"
  /\ \E s \in points, e \in points, vehicle_width \in widths :
       LET box == RequestBox(s[1], s[2], e[1], e[2])
           got == [req[w] EXCEPT !.s_lat = s[1], !.s_lon = s[2],
                                 !.e_lat = e[1], !.e_lon = e[2],
                                 !.vehicle_width = vehicle_width]
       IN IF UseCached(G_CACHED, CACHED_BBOX, box)
          THEN req' = [req EXCEPT ![w] = [got EXCEPT !.pc = "prepare", !.base = "cached"]]
          ELSE \/ \E G \in graphs :
                    req' = [req EXCEPT ![w] =
                              [got EXCEPT !.pc = "prepare", !.base = "own", !.G_own = G,
                                          !.fetched = <<box.north, box.south,
                                                        box.east, box.west>>]]
               \/ req' = [req EXCEPT ![w] =
                            [got EXCEPT !.pc = "done", !.response = ProviderErrorResponse,
                                        !.fetched = <<box.north, box.south,
                                                      box.east, box.west>>]]
  /\ UNCHANGED <<main_pc, G_CACHED, CACHED_BBOX, G_LOADED>>

\* deep copy, annotation, removal of the narrow edges, projection of the
\* two endpoints on G_request
Prepare(w) ==
  /\ req[w].pc = "prepare"
  /\ LET G_request == PrepareRequestGraph(BaseGraph(w), req[w].vehicle_width)
     IN req' = [req EXCEPT
                  ![w].pc = "solve",
                  ![w].G_request = G_request,
                  ![w].orig = nearest_nodes(G_request, req[w].s_lon, req[w].s_lat),
                  ![w].dest = nearest_nodes(G_request, req[w].e_lon, req[w].e_lat),
                  ![w].G_route = "request",
                  ![w].is_fallback = FALSE]
  /\ UNCHANGED <<main_pc, G_CACHED, CACHED_BBOX, G_LOADED>>

\* the loop of the fallback over G_base's dicts: weight is set where missing
EnsureWeights(G) ==
  [G EXCEPT !.edges = [e \in EdgesOf(G) |->
                         IF "weight" \in DOMAIN G.edges[e] THEN G.edges[e]
                         ELSE Put(G.edges[e], "weight", Get(G.edges[e], "length", 1))]]

\* the deep copy of the shared G_CACHED runs while another thread is about to
\* add a key to one of its dicts: the copy's iteration over that dict may
\* raise RuntimeError, which get_route does not catch
WritesCached(v) ==
  /\ req[v].base = "cached"
  /\ \/ req[v].pc = "fallback" /\ EnsureWeights(G_CACHED) # G_CACHED
     \/ /\ req[v].pc = "aggregate"
        /\ req[v].G_route = "base"
        /\ Aggregate(G_CACHED, req[v].route).G # G_CACHED

PrepareRaced(w) ==
  /\ req[w].pc = "prepare"
  /\ req[w].base = "cached"
  /\ \E v \in Workers \ {w} : WritesCached(v)
  /\ req' = [req EXCEPT ![w].pc = "done", ![w].response = UnhandledErrorResponse]
  /\ UNCHANGED <<main_pc, G_CACHED, CACHED_BBOX, G_LOADED>>

\* 1. the solve on the width-restricted graph
Solve(w) ==
  /\ req[w].pc = "solve"
  /\ LET routes == shortest_paths(req[w].G_request, req[w].orig, req[w].dest)
     IN IF routes # {}
        THEN \E route \in routes :
               req' = [req EXCEPT ![w].pc = "aggregate", ![w].route = route,
                                  ![w].solves = Append(@, [graph |-> "request", found |-> TRUE])]
        ELSE req' = [req EXCEPT ![w].pc = "fallback",
                                ![w].solves = Append(@, [graph |-> "request", found |-> FALSE])]
  /\ UNCHANGED <<main_pc, G_CACHED, CACHED_BBOX, G_LOADED>>

\* the fallback leaving is_fallback as it was
FallbackFlagNotSet == FALSE

\* the flag the fallback sets
FallbackFlag == TRUE

\* 2. NetworkXNoPath: the endpoints are projected on G_base, G_route becomes
\* G_base, and G_base's dicts get their weight
Fallback(w) ==
  /\ req[w].pc = "fallback"
  /\ LET G_base == BaseGraph(w)
         weighted == EnsureWeights(G_base)
     IN /\ req' = [req EXCEPT
                     ![w].pc = "solve_fallback",
                     ![w].orig_fallback = nearest_nodes(G_base, req[w].s_lon, req[w].s_lat),
                     ![w].dest_fallback = nearest_nodes(G_base, req[w].e_lon, req[w].e_lat),
                     ![w].G_route = "base",
                     ![w].is_fallback = FallbackFlag,
                     ![w].G_own = IF req[w].base = "own" THEN weighted ELSE @]
        /\ G_CACHED' = IF req[w].base = "cached" THEN weighted ELSE G_CACHED
  /\ UNCHANGED <<main_pc, CACHED_BBOX, G_LOADED>>

\* the solve on the unrestricted graph; 3. no path there either: 404
SolveFallback(w) ==
  /\ req[w].pc = "solve_fallback"
  /\ LET routes == shortest_paths(BaseGraph(w), req[w].orig_fallback,
                                   req[w].dest_fallback)
     IN IF routes # {}
        THEN \E route \in routes :
               req' = [req EXCEPT ![w].pc = "aggregate", ![w].route = route,
                                  ![w].solves = Append(@, [graph |-> "base", found |-> TRUE])]
        ELSE req' = [req EXCEPT ![w].pc = "done", ![w].response = NoRouteResponse,
                                ![w].solves = Append(@, [graph |-> "base", found |-> FALSE])]
  /\ UNCHANGED <<main_pc, G_CACHED, CACHED_BBOX, G_LOADED>>

\* the graph G_route names
RouteGraph(w) == IF req[w].G_route = "base" THEN BaseGraph(w) ELSE req[w].G_request

\* the walk over the solved path and the 200 response; the loop's lazy
\* travel_time_min is written to the dicts of G_route
AggregateAndRespond(w) ==
  /\ req[w].pc = "aggregate"
  /\ LET G_route == RouteGraph(w)
         agg     == Aggregate(G_route, req[w].route)
         shared  == req[w].G_route = "base" /\ req[w].base = "cached"
     IN /\ req' = [req EXCEPT
                     ![w].pc = "done",
                     ![w].total_distance_m = agg.total_distance_m,
                     ![w].total_duration_min = agg.total_duration_min,
                     ![w].G_request = IF req[w].G_route = "request" THEN agg.G ELSE @,
                     ![w].G_own = IF req[w].G_route = "base" /\ req[w].base = "own"
                                  THEN agg.G ELSE @,
                     ![w].response = BuildResponse(G_route, req[w].route, agg,
                                                   req[w].vehicle_width,
                                                   req[w].is_fallback)]
        /\ G_CACHED' = IF shared THEN agg.G ELSE G_CACHED
  /\ UNCHANGED <<main_pc, CACHED_BBOX, G_LOADED>>

\* the response is sent and the call's locals are dropped
Finish(w) ==
  /\ req[w].pc = "done"
  /\ req' = [req EXCEPT ![w] = IdleLocals]
  /\ UNCHANGED <<main_pc, G_CACHED, CACHED_BBOX, G_LOADED>>

\* ------------------------------------------------------------------ specifications
\* one request at a time, every road graph and every request point
Next ==
  \/ LoadDefaultGraphOk
  \/ LoadDefaultGraphFail
  \/ ReceiveBadCoords(1)
  \/ ReceiveBadWidth(1)
  \/ Receive(1, Points, VehicleWidths, ProviderGraphs)
  \/ Prepare(1)
  \/ Solve(1)
  \/ Fallback(1)
  \/ SolveFallback(1)
  \/ AggregateAndRespond(1)
  \/ Finish(1)

Spec == Init /\ [][Next]_vars

\* the threads of the server, each on its own request, on the narrower inputs
NextConc ==
  \/ LoadDefaultGraphOk
  \/ LoadDefaultGraphFail
  \/ \E w \in Workers :
       \/ ReceiveBadCoords(w)
       \/ Receive(w, ConcPoints, ConcWidths, ConcGraphs)
       \/ Prepare(w)
       \/ PrepareRaced(w)
       \/ Solve(w)
       \/ Fallback(w)
       \/ SolveFallback(w)
       \/ AggregateAndRespond(w)
       \/ Finish(w)

SpecConc == Init /\ [][NextConc]_vars

\* ------------------------------------------------------------------ properties
\* what the properties are stated with: graph notions defined on their own,
\* not through the solver or the aggregation loop

\* the edges of G that a vehicle of the given width may use: those whose
\* estimate is not strictly below it
UsableEdges(G, vehicle_width) ==
  {e \in EdgesOf(G) : ~Lt(estimate_edge_width(G.edges[e]), vehicle_width)}

HasPath(G, es, s, t) == SimplePaths(G, es, s, t) # {}

\* the least of a field over the edges of `es` that join u to v
LeastOf(G, es, u, v, field(_)) ==
  SetMin({field(G.edges[e]) : e \in {d \in es : d[1] = u /\ d[2] = v}})

LengthOf(data) == Get(data, "length", 1)

TimeOf(data) == TravelTime(data, SpeedOf(data))

\* total length and total travel time of a node path, each pair by its best edge
PathLength(G, es, p) ==
  SumSeq([i \in 1..(Len(p) - 1) |-> LeastOf(G, es, p[i], p[i + 1], LengthOf)])

PathTime(G, es, p) ==
  SumSeq([i \in 1..(Len(p) - 1) |-> LeastOf(G, es, p[i], p[i + 1], TimeOf)])

\* the lowest key among the edges of G that join u to v
LowestKey(G, u, v) == SetMin({e[3] : e \in EdgesBetween(G, u, v)})

LowestKeyData(G, u, v) == G.edges[<<u, v, LowestKey(G, u, v)>>]

Answered(w) == req[w].pc = "done"

Routed(w) == Answered(w) /\ req[w].response.status = 200

Warned(w) == "error" \in DOMAIN req[w].response.body

\* the request's box, computed from its coordinates
BoxSouth(w) == (IF req[w].s_lat < req[w].e_lat THEN req[w].s_lat ELSE req[w].e_lat) - 5

BoxNorth(w) == (IF req[w].s_lat > req[w].e_lat THEN req[w].s_lat ELSE req[w].e_lat) + 5

BoxWest(w) == (IF req[w].s_lon < req[w].e_lon THEN req[w].s_lon ELSE req[w].e_lon) - 5

BoxEast(w) == (IF req[w].s_lon > req[w].e_lon THEN req[w].s_lon ELSE req[w].e_lon) + 5

\* the display names of the route's pairs, each by its lowest-key edge, a
\* name kept at its first occurrence only
RECURSIVE FirstOccurrences(_)
FirstOccurrences(names) ==
  IF Len(names) = 0 THEN <<>>
  ELSE LET front == FirstOccurrences([i \in 1..(Len(names) - 1) |-> names[i]])
           last  == names[Len(names)]
       IN IF SeqContains(front, last) THEN front ELSE Append(front, last)

\* name > ref > highway category, the first value of a multi-valued tag
FirstValue(t) == IF t.items = <<>> THEN "" ELSE t.items[1]

NameByPrecedence(data) ==
  IF FirstValue(Get(data, "name", NoneTag)) # "" THEN FirstValue(data["name"])
  ELSE IF FirstValue(Get(data, "ref", NoneTag)) # "" THEN FirstValue(data["ref"])
  ELSE IF FirstValue(Get(data, "highway", NoneTag)) # ""
       THEN FirstValue(data["highway"])
  ELSE "Unnamed Road (" \o ToString(Get(data, "length", 0)) \o " m)"

NamesAlong(G, p) ==
  FirstOccurrences([i \in 1..(Len(p) - 1) |->
                      NameByPrecedence(LowestKeyData(G, p[i], p[i + 1]))])

\* C1: the cached graph is never written: once loaded, its edge set and
\* every edge's attribute map stay what load_default_graph left
C1_CachedGraphNeverWritten ==
  main_pc = "serving" => G_CACHED = G_LOADED

\* C2: estimate_edge_width is strictly positive for every edge of every
\* graph a request has prepared, whatever its width and lanes tags hold
C2_WidthEstimatePositive ==
  \A w \in Workers :
    req[w].pc \notin {"idle", "prepare"} /\ req[w].base # "none" =>
      \A e \in EdgesOf(BaseGraph(w)) :
        Gt(estimate_edge_width(BaseGraph(w).edges[e]), 0)

\* C3: a 200 response carries the warning if and only if the restricted
\* graph has no path and the route was solved on the base graph; the
\* restricted solve comes first, and a route solved on it is never warned
C3_WarningIffFallback ==
  \A w \in Workers :
    Routed(w) =>
      LET G_base == BaseGraph(w)
          feasible == HasPath(G_base, UsableEdges(G_base, req[w].vehicle_width),
                              req[w].orig, req[w].dest)
      IN /\ Warned(w) <=> (~feasible /\ req[w].G_route = "base")
         /\ Warned(w) <=> req[w].solves = <<[graph |-> "request", found |-> FALSE],
                                            [graph |-> "base", found |-> TRUE]>>
         /\ req[w].solves[1].graph = "request"
         /\ ~Warned(w) => req[w].solves = <<[graph |-> "request", found |-> TRUE]>>
         /\ Warned(w) => req[w].response.body["error"] = FALLBACK_WARNING

C3_Witness ==
  \E w \in Workers : Routed(w) /\ Warned(w) /\ Len(req[w].route) >= 2

\* C4: a route returned without the warning joins every consecutive pair
\* by a base-graph edge whose estimated width is >= vehicle_width
C4_UnwarnedRouteIsWideEnough ==
  \A w \in Workers :
    Routed(w) /\ ~Warned(w) =>
      \A i \in 1..(Len(req[w].route) - 1) :
        \E e \in EdgesBetween(BaseGraph(w), req[w].route[i], req[w].route[i + 1]) :
          Ge(estimate_edge_width(BaseGraph(w).edges[e]), req[w].vehicle_width)

\* C5 as stated: with no path in either graph the request ends with 404 and
\* the body {"error": "No route found"}, two solves and no route payload
C5_NoRouteFound ==
  \A w \in Workers :
    /\ Answered(w)
    /\ req[w].orig # 0
    /\ ~HasPath(BaseGraph(w), EdgesOf(BaseGraph(w)), req[w].orig, req[w].dest)
    => /\ req[w].response.status = 404
       /\ req[w].response.body = [error |-> "No route found"]
       /\ Len(req[w].solves) = 2
       /\ req[w].route = <<>>

\* C5 amended: with no path in either graph the request ends with 404 and
\* the body {"error": "No route available, even without width
\* restrictions."}, after exactly two solves and with no route payload
C5_NoRouteAvailable ==
  \A w \in Workers :
    /\ Answered(w)
    /\ req[w].orig # 0
    /\ ~HasPath(BaseGraph(w), EdgesOf(BaseGraph(w)), req[w].orig, req[w].dest)
    => /\ req[w].response.status = 404
       /\ req[w].response.body =
            [error |-> "No route available, even without width restrictions."]
       /\ req[w].solves = <<[graph |-> "request", found |-> FALSE],
                            [graph |-> "base", found |-> FALSE]>>
       /\ req[w].route = <<>>
       /\ "route" \notin DOMAIN req[w].response.body

C5_Witness ==
  \E w \in Workers :
    /\ Answered(w)
    /\ req[w].orig # 0
    /\ req[w].orig # req[w].dest
    /\ EdgesOf(BaseGraph(w)) # {}
    /\ ~HasPath(BaseGraph(w), EdgesOf(BaseGraph(w)), req[w].orig, req[w].dest)

\* C6: a request uses the cached graph if and only if one is cached and the
\* endpoints' box widened by 0.005 degrees lies within the cached box,
\* boundaries included; otherwise the provider is asked for that very box
C6_CacheGate ==
  \A w \in Workers :
    req[w].base # "none" \/ req[w].fetched # <<>> =>
      LET covered == /\ G_LOADED # NoGraph
                     /\ BoxSouth(w) >= CACHED_BBOX[1]
                     /\ BoxNorth(w) <= CACHED_BBOX[3]
                     /\ BoxWest(w) >= CACHED_BBOX[2]
                     /\ BoxEast(w) <= CACHED_BBOX[4]
      IN /\ req[w].base = "cached" <=> covered
         /\ covered => req[w].fetched = <<>>
         /\ ~covered =>
              req[w].fetched = <<BoxNorth(w), BoxSouth(w), BoxEast(w), BoxWest(w)>>

C6_Witness ==
  \E w \in Workers :
    /\ req[w].base = "cached"
    /\ BoxSouth(w) = CACHED_BBOX[1]
    /\ BoxNorth(w) = CACHED_BBOX[3]
    /\ BoxWest(w) = CACHED_BBOX[2]
    /\ BoxEast(w) = CACHED_BBOX[4]

\* C7: endpoints projected on one node give a 200 with a one-node route,
\* zero distance and zero duration, one solve and no warning
C7_SameNodeRoute ==
  \A w \in Workers :
    Answered(w) /\ req[w].orig # 0 /\ req[w].orig = req[w].dest =>
      /\ req[w].response.status = 200
      /\ req[w].route = <<req[w].orig>>
      /\ req[w].response.body["num_nodes"] = 1
      /\ req[w].response.body["route"] =
           <<<<BaseGraph(w).y[req[w].orig], BaseGraph(w).x[req[w].orig]>>>>
      /\ req[w].response.body["distance_km"] = 0
      /\ req[w].response.body["duration_min"] = 0
      /\ req[w].response.body["route_names"] = <<>>
      /\ ~Warned(w)
      /\ ~req[w].is_fallback
      /\ req[w].solves = <<[graph |-> "request", found |-> TRUE]>>

\* the case of C7 where every edge at the node was removed as too narrow
C7_Witness ==
  \E w \in Workers :
    /\ Routed(w)
    /\ req[w].orig = req[w].dest
    /\ \E e \in EdgesOf(BaseGraph(w)) : e[1] = req[w].orig \/ e[2] = req[w].orig
    /\ \A e \in EdgesOf(req[w].G_request) : e[1] # req[w].orig /\ e[2] # req[w].orig

\* C8: the totals of a returned route are the sums, over its consecutive
\* pairs, of the length and the travel time of the lowest-key edge between
\* the pair in the graph the route was solved on
C8_TotalsSumEveryPair ==
  \A w \in Workers :
    Routed(w) =>
      LET G == RouteGraph(w)
          p == req[w].route
      IN /\ req[w].total_distance_m =
              SumSeq([i \in 1..(Len(p) - 1) |->
                        Get(LowestKeyData(G, p[i], p[i + 1]), "length", 0)])
         /\ req[w].total_duration_min =
              SumSeq([i \in 1..(Len(p) - 1) |->
                        TimeOf(LowestKeyData(G, p[i], p[i + 1]))])

\* C9 as stated: an unwarned route has the least total travel time among
\* the paths of the width-restricted graph
C9_LeastTravelTime ==
  \A w \in Workers :
    Routed(w) /\ ~Warned(w) =>
      LET G  == BaseGraph(w)
          es == UsableEdges(G, req[w].vehicle_width)
      IN \A p \in SimplePaths(G, es, req[w].orig, req[w].dest) :
           PathTime(G, es, req[w].route) <= PathTime(G, es, p)

\* C9 amended: an unwarned route is a path of the width-restricted graph
\* from the origin node to the destination node of least total length (the
\* solver's weight: an edge's length, 1 when it has none)
C9_LeastLength ==
  \A w \in Workers :
    Routed(w) /\ ~Warned(w) =>
      LET G  == BaseGraph(w)
          es == UsableEdges(G, req[w].vehicle_width)
      IN /\ req[w].route \in SimplePaths(G, es, req[w].orig, req[w].dest)
         /\ \A p \in SimplePaths(G, es, req[w].orig, req[w].dest) :
              PathLength(G, es, req[w].route) <= PathLength(G, es, p)

\* a route that is the shortest but not the quickest of several
C9_Witness ==
  \E w \in Workers :
    /\ Routed(w) /\ ~Warned(w)
    /\ LET G  == BaseGraph(w)
           es == UsableEdges(G, req[w].vehicle_width)
       IN \E p \in SimplePaths(G, es, req[w].orig, req[w].dest) :
            /\ PathLength(G, es, req[w].route) < PathLength(G, es, p)
            /\ PathTime(G, es, p) < PathTime(G, es, req[w].route)

\* C10: route_names holds no name twice and lists, in order of first
\* occurrence, the display name (name > ref > highway) of every edge the
\* route traverses
C10_RouteNamesFirstOccurrence ==
  \A w \in Workers :
    Routed(w) =>
      /\ \A i, j \in 1..Len(req[w].response.body["route_names"]) :
           i # j => req[w].response.body["route_names"][i]
                      # req[w].response.body["route_names"][j]
      /\ req[w].response.body["route_names"] = NamesAlong(RouteGraph(w), req[w].route)

====
